---------------------------- MODULE Spec2Model ----------------------------
(***************************************************************************)
(* Connect Four decision engine: the board/state model (connect4/game.py), *)
(* the positional evaluator (connect4/evaluation.py) and the two game-tree *)
(* searches with their tracer and metrics (connect4/search.py).            *)
(*                                                                         *)
(* Encoding of Python values:                                              *)
(*   Optional[T]   None is <<>>, a present value x is <<x>>                *)
(*   exceptions    a call's outcome carries err, "none" when it returned   *)
(*   10**18        INF is 2 * 10**9: TLC integers are 32 bit, and every    *)
(*                 value the search compares with INF has magnitude at     *)
(*                 most WIN_SCORE = 10**9                                  *)
(***************************************************************************)
EXTENDS Integers, Sequences, FiniteSets, TLC

VARIABLES
    game,      \* the ConnectFour object: rows, cols, connect, board, current_player, last_move
    moves,     \* driver: the columns played so far (main.py / compare.py setup)
    applied,   \* driver: move records returned by drop_disc and not yet undone, newest last
    ret,       \* outcome of the last drop_disc / undo_disc call made by the driver
    call,      \* arguments of the search invocation in progress (ai_player, depth_limit, ...)
    stack,     \* recursion stack of the running search, root frame first
    metrics,   \* SearchMetrics of the running search
    tracer,    \* Optional SearchTracer of the running search
    outs,      \* what each finished search returned
    pc         \* driver position: "play", "minimax", "alphabeta", "done"

vars == <<game, moves, applied, ret, call, stack, metrics, tracer, outs, pc>>

None == <<>>
Some(x) == <<x>>

-----------------------------------------------------------------------------
(* Bounds of the model *)

\* free play on the small boards stops after this many discs
MaxPlies == 6
\* depth limits 0..MaxDepth are tried on every position
MaxDepth == 3
\* trace depths 0..MaxTraceDepth are tried, besides running without a tracer
MaxTraceDepth == 2

(* Program constants *)
DefaultRows == 6
DefaultCols == 7
DefaultConnect == 4
DefaultDepth == 5
WIN_SCORE == 1000000000
INF == 2000000000

\* compare.py setup_midgame: the columns of the fixed midgame position
MidgameSeq == <<3, 3, 2, 4, 2, 4, 1, 5>>

-----------------------------------------------------------------------------
(* connect4/game.py *)

ConnectFour(rows, cols, connect) ==
    [rows |-> rows, cols |-> cols, connect |-> connect,
     board |-> [r \in 0..(rows - 1) |-> [c \in 0..(cols - 1) |-> 0]],
     current_player |-> 1,
     last_move |-> None]

MoveResult(row, col, player) == [row |-> row, col |-> col, player |-> player]

\* range(n) as a sequence
Range(n) == [i \in 1..(IF n > 0 THEN n ELSE 0) |-> i - 1]

\* mutant of top_is_empty: the bottom cell is tested instead of the top cell
bottom_is_empty(g, c) == g.board[g.rows - 1][c] = 0

top_is_empty(g, c) == g.board[0][c] = 0

actions(g) == SelectSeq(Range(g.cols), LAMBDA c : top_is_empty(g, c))

is_full(g) == \A c \in 0..(g.cols - 1) : g.board[0][c] # 0

\* mutant of landing_row: the column is scanned from the top row downward
landing_row_from_top(g, col, r) ==
    IF \E x \in 0..r : g.board[x][col] = 0
      THEN CHOOSE x \in 0..r : g.board[x][col] = 0 /\ \A y \in 0..(x - 1) : g.board[y][col] # 0
    ELSE -1

\* the loop of drop_disc: the first empty row met going from row r up to row 0, -1 if none
RECURSIVE landing_row(_, _, _)
landing_row(g, col, r) ==
    IF r < 0 THEN -1
    ELSE IF g.board[r][col] = 0 THEN r
    ELSE landing_row(g, col, r - 1)

\* mutant of column_is_full: the bottom cell is tested instead of the top cell
column_is_full_bottom(g, col) == g.board[g.rows - 1][col] # 0

column_is_full(g, col) == g.board[0][col] # 0

\* mutant of advance_turn: the turn flips on every drop
advance_turn_always(g, player) == -g.current_player

advance_turn(g, player) ==
    IF player = g.current_player THEN -g.current_player ELSE g.current_player

\* mutant of place_disc: the last-move anchor is not updated
place_disc_no_anchor(g, r, col, p) ==
    [g EXCEPT !.board[r][col] = p,
              !.current_player = advance_turn(g, p)]

\* the body of drop_disc's loop at the landing row r
place_disc(g, r, col, p) ==
    [g EXCEPT !.board[r][col] = p,
              !.last_move = Some(MoveResult(r, col, p)),
              !.current_player = advance_turn(g, p)]

Raised(g, e) == [game |-> g, err |-> e, mv |-> None]

drop_disc(g, col, player) ==
    LET p == IF player = None THEN g.current_player ELSE player[1]
    IN  IF ~(0 <= col /\ col < g.cols)
          THEN Raised(g, "ValueError: Column out of bounds.")
        ELSE IF column_is_full(g, col)
          THEN Raised(g, "ValueError: Column is full.")
        ELSE LET r == landing_row(g, col, g.rows - 1)
             IN  IF r < 0
                   THEN Raised(g, "RuntimeError: Failed to drop disc.")
                 ELSE [game |-> place_disc(g, r, col, p),
                       err  |-> "none",
                       mv   |-> Some(MoveResult(r, col, p))]

\* mutant of undo_restore: the disc stays on the board
undo_restore_keep_disc(g, move) ==
    [g EXCEPT !.last_move = None,
              !.current_player = move.player]

\* mutant of undo_restore: the turn owner is not rolled back
undo_restore_keep_turn(g, move) ==
    [g EXCEPT !.board[move.row][move.col] = 0,
              !.last_move = None]

undo_restore(g, move) ==
    [g EXCEPT !.board[move.row][move.col] = 0,
              !.last_move = None,
              !.current_player = move.player]

\* mutant of undo_disc: the cell is cleared without the mismatch test
undo_disc_unchecked(g, move) == [game |-> undo_restore(g, move), err |-> "none"]

undo_disc(g, move) ==
    IF g.board[move.row][move.col] # move.player
      THEN [game |-> g, err |-> "ValueError: Undo mismatch: board cell does not match the move."]
    ELSE [game |-> undo_restore(g, move), err |-> "none"]

RECURSIVE count_dir(_, _, _, _, _, _)
count_dir(g, r, c, p, dr, dc) ==
    LET rr == r + dr
        cc == c + dc
    IN  IF 0 <= rr /\ rr < g.rows /\ 0 <= cc /\ cc < g.cols /\ g.board[rr][cc] = p
          THEN 1 + count_dir(g, rr, cc, p, dr, dc)
        ELSE 0

directions == <<<<0, 1>>, <<1, 0>>, <<1, 1>>, <<-1, 1>>>>

\* mutant of is_winning_move: the run is counted on one side of the move only
is_winning_move_one_side(g, r, c, p) ==
    \E k \in 1..Len(directions) :
        1 + count_dir(g, r, c, p, directions[k][1], directions[k][2]) >= g.connect

is_winning_move(g, r, c, p) ==
    \E k \in 1..Len(directions) :
        LET dr == directions[k][1]
            dc == directions[k][2]
        IN  1 + count_dir(g, r, c, p, dr, dc) + count_dir(g, r, c, p, -dr, -dc) >= g.connect

winner(g) ==
    IF g.last_move = None THEN 0
    ELSE LET m == g.last_move[1]
         IN  IF is_winning_move(g, m.row, m.col, m.player) THEN m.player ELSE 0

terminal(g) == winner(g) # 0 \/ is_full(g)

-----------------------------------------------------------------------------
(* connect4/evaluation.py *)

\* the literal window length of score_window and of the four window loops
WINDOW == 4

\* list.count(x)
count(window, x) == Cardinality({i \in 1..Len(window) : window[i] = x})

\* mutant of score_window: the opponent's windows weigh what the player's own weigh
score_window_symmetric(window, player) ==
    LET p_count == count(window, player)
        o_count == count(window, -player)
        e_count == count(window, 0)
    IN  IF p_count > 0 /\ o_count > 0 THEN 0
        ELSE IF p_count = 4 THEN 100000
        ELSE IF p_count = 3 /\ e_count = 1 THEN 200
        ELSE IF p_count = 2 /\ e_count = 2 THEN 30
        ELSE IF o_count = 4 THEN -100000
        ELSE IF o_count = 3 /\ e_count = 1 THEN -200
        ELSE IF o_count = 2 /\ e_count = 2 THEN -30
        ELSE 0

score_window(window, player) ==
    LET p_count == count(window, player)
        o_count == count(window, -player)
        e_count == count(window, 0)
    IN  IF p_count > 0 /\ o_count > 0 THEN 0
        ELSE IF p_count = 4 THEN 100000
        ELSE IF p_count = 3 /\ e_count = 1 THEN 200
        ELSE IF p_count = 2 /\ e_count = 2 THEN 30
        ELSE IF o_count = 4 THEN -100000
        ELSE IF o_count = 3 /\ e_count = 1 THEN -220
        ELSE IF o_count = 2 /\ e_count = 2 THEN -35
        ELSE 0

\* sum of F(i) for i in range(lo, hi + 1)
RECURSIVE SumTo(_, _)
SumTo(f, n) == IF n <= 0 THEN 0 ELSE f[n] + SumTo(f, n - 1)

SumRange(lo, hi, F(_)) == SumTo([i \in 1..(hi - lo + 1) |-> F(lo + i - 1)], hi - lo + 1)

center_delta(g, player) ==
    LET center_col == g.cols \div 2
    IN  SumRange(0, g.rows - 1,
                 LAMBDA r : IF g.board[r][center_col] = player THEN 1
                            ELSE IF g.board[r][center_col] = -player THEN -1
                            ELSE 0)

horizontal_score(g, player) ==
    SumRange(0, g.rows - 1, LAMBDA r :
        SumRange(0, g.cols - WINDOW, LAMBDA c :
            score_window([i \in 1..WINDOW |-> g.board[r][c + i - 1]], player)))

vertical_score(g, player) ==
    SumRange(0, g.cols - 1, LAMBDA c :
        SumRange(0, g.rows - WINDOW, LAMBDA r :
            score_window([i \in 1..WINDOW |-> g.board[r + i - 1][c]], player)))

diag_down_score(g, player) ==
    SumRange(0, g.rows - WINDOW, LAMBDA r :
        SumRange(0, g.cols - WINDOW, LAMBDA c :
            score_window([i \in 1..WINDOW |-> g.board[r + i - 1][c + i - 1]], player)))

diag_up_score(g, player) ==
    SumRange(WINDOW - 1, g.rows - 1, LAMBDA r :
        SumRange(0, g.cols - WINDOW, LAMBDA c :
            score_window([i \in 1..WINDOW |-> g.board[r - (i - 1)][c + i - 1]], player)))

heuristic(g, player) ==
    6 * center_delta(g, player)
    + horizontal_score(g, player) + vertical_score(g, player)
    + diag_down_score(g, player) + diag_up_score(g, player)

evaluate(g, player) ==
    LET w == winner(g)
    IN  IF w = player THEN WIN_SCORE
        ELSE IF w = -player THEN -WIN_SCORE
        ELSE IF is_full(g) THEN 0
        ELSE heuristic(g, player)

-----------------------------------------------------------------------------
(* connect4/search.py: metrics and tracer *)

SearchMetrics == [nodes_expanded |-> 0, max_depth_reached |-> 0]

\* mutant of count_node: the depth of the last visited node is kept
count_node_last_depth(m, d) ==
    [nodes_expanded    |-> m.nodes_expanded + 1,
     max_depth_reached |-> d]

\* the first two statements of max_value / min_value
count_node(m, d) ==
    [nodes_expanded    |-> m.nodes_expanded + 1,
     max_depth_reached |-> IF d > m.max_depth_reached THEN d ELSE m.max_depth_reached]

TraceNode(id, parent, move, depth, turn_player, kind, alpha, beta, pruned) ==
    [id |-> id, parent |-> parent, move |-> move, depth |-> depth,
     turn_player |-> turn_player, kind |-> kind, alpha |-> alpha, beta |-> beta,
     value |-> None, pruned |-> pruned]

SearchTracer(trace_depth) == [trace_depth |-> trace_depth, nodes |-> <<>>, next_id |-> 0]

\* the tracer after new_node; the id it returns is t.next_id
new_node(t, parent, move, depth, turn_player, kind, alpha, beta, pruned) ==
    [t EXCEPT !.nodes = Append(@, TraceNode(t.next_id, parent, move, depth,
                                            turn_player, kind, alpha, beta, pruned)),
              !.next_id = @ + 1]

\* alpha and beta are Optional: None leaves the node's bound as it is
set_value(t, node_id, value, alpha, beta) ==
    IF \E k \in 1..Len(t.nodes) : t.nodes[k].id = node_id
      THEN LET k == CHOOSE k \in 1..Len(t.nodes) :
                        /\ t.nodes[k].id = node_id
                        /\ \A j \in 1..(k - 1) : t.nodes[j].id # node_id
           IN  [t EXCEPT !.nodes[k] =
                   [@ EXCEPT !.value = Some(value),
                             !.alpha = IF alpha # None THEN alpha ELSE @,
                             !.beta  = IF beta # None THEN beta ELSE @]]
    ELSE t

-----------------------------------------------------------------------------
(* connect4/search.py: minimax_decision and alphabeta_decision.            *)
(* A frame is one activation: fn "root" is the body of the decision        *)
(* function, "max_value" and "min_value" its nested functions.  exit tells *)
(* how the activation left its entry checks: "terminal" (terminal_value),  *)
(* "depth" (evaluate) or "loop" (it iterates over acts).  In a loop frame  *)
(* acts[i] is the move being tried, mv the record of the applied move, v   *)
(* the running best (best_val at the root) and cut whether the loop broke. *)

terminal_value(g, ai_player) ==
    LET w == winner(g)
    IN  IF w = ai_player THEN WIN_SCORE
        ELSE IF w = -ai_player THEN -WIN_SCORE
        ELSE 0

LoopFrame(fn, maximizing, d, node_id, acts) ==
    [fn |-> fn, maximizing |-> maximizing, d |-> d, node_id |-> node_id,
     exit |-> "loop", acts |-> acts, i |-> 1,
     v |-> IF maximizing THEN -INF ELSE INF,
     alpha |-> -INF, beta |-> INF,
     best_move |-> None, mv |-> None, cut |-> FALSE]

LeafFrame(fn, maximizing, d, node_id, exit, value) ==
    [LoopFrame(fn, maximizing, d, node_id, <<>>) EXCEPT !.exit = exit, !.v = value]

FnName(maximizing) == IF maximizing THEN "max_value" ELSE "min_value"

\* mutant of enter_value: the depth cutoff is tested before the terminal test
enter_value_depth_first(maximizing, g, c, d, alpha, beta, node_id) ==
    IF d >= c.depth_limit
      THEN LeafFrame(FnName(maximizing), maximizing, d, node_id, "depth",
                     evaluate(g, c.ai_player))
    ELSE IF terminal(g)
      THEN LeafFrame(FnName(maximizing), maximizing, d, node_id, "terminal",
                     terminal_value(g, c.ai_player))
    ELSE [LoopFrame(FnName(maximizing), maximizing, d, node_id, actions(g))
             EXCEPT !.alpha = alpha, !.beta = beta]

\* mutant of enter_value: the search goes one level past the depth limit
enter_value_past_limit(maximizing, g, c, d, alpha, beta, node_id) ==
    IF terminal(g)
      THEN LeafFrame(FnName(maximizing), maximizing, d, node_id, "terminal",
                     terminal_value(g, c.ai_player))
    ELSE IF d > c.depth_limit
      THEN LeafFrame(FnName(maximizing), maximizing, d, node_id, "depth",
                     evaluate(g, c.ai_player))
    ELSE [LoopFrame(FnName(maximizing), maximizing, d, node_id, actions(g))
             EXCEPT !.alpha = alpha, !.beta = beta]

\* mutant of enter_value: a traced search stops where the trace stops recording
enter_value_within_trace(maximizing, g, c, d, alpha, beta, node_id) ==
    IF terminal(g)
      THEN LeafFrame(FnName(maximizing), maximizing, d, node_id, "terminal",
                     terminal_value(g, c.ai_player))
    ELSE IF d >= c.depth_limit \/ (c.topt # None /\ node_id = None)
      THEN LeafFrame(FnName(maximizing), maximizing, d, node_id, "depth",
                     evaluate(g, c.ai_player))
    ELSE [LoopFrame(FnName(maximizing), maximizing, d, node_id, actions(g))
             EXCEPT !.alpha = alpha, !.beta = beta]

\* max_value / min_value from the terminal test to the start of the loop, on state g
\* at depth d of call c
enter_value(maximizing, g, c, d, alpha, beta, node_id) ==
    IF terminal(g)
      THEN LeafFrame(FnName(maximizing), maximizing, d, node_id, "terminal",
                     terminal_value(g, c.ai_player))
    ELSE IF d >= c.depth_limit
      THEN LeafFrame(FnName(maximizing), maximizing, d, node_id, "depth",
                     evaluate(g, c.ai_player))
    ELSE [LoopFrame(FnName(maximizing), maximizing, d, node_id, actions(g))
             EXCEPT !.alpha = alpha, !.beta = beta]

\* the activation has its return value: it never looped, or its loop ended or broke
Finished(f) == f.exit # "loop" \/ f.cut \/ f.i > Len(f.acts)

\* mutant of traces_children: children of a node at the trace depth are recorded too
traces_children_inclusive(f, t) == f.d <= t.trace_depth

\* "tracer.trace_depth >= 1" at the root, "d < tracer.trace_depth" below it
traces_children(f, t) == IF f.fn = "root" THEN t.trace_depth >= 1 ELSE f.d < t.trace_depth

\* mutant of mm_better: ties replace the running best
mm_better_or_equal(maximizing, val, best) == IF maximizing THEN val >= best ELSE val =< best

\* minimax: "if val > v" / "if val < v"
mm_better(maximizing, val, best) == IF maximizing THEN val > best ELSE val < best

\* minimax: the statements after undo_disc in the loop of frame f, val the child's value
mm_update(f, val) ==
    LET better == mm_better(f.maximizing, val, f.v)
    IN  [f EXCEPT !.v = IF better THEN val ELSE @,
                  !.best_move = IF f.fn = "root" /\ better THEN Some(f.acts[f.i]) ELSE @,
                  !.mv = None,
                  !.i = @ + 1]

\* mutant of ab_better: ties replace the running best
ab_better_or_equal(maximizing, val, best) == IF maximizing THEN val >= best ELSE val =< best

\* alpha-beta: "if val > v" / "if val < v"
ab_better(maximizing, val, best) == IF maximizing THEN val > best ELSE val < best

\* mutant of ab_cutoff: the loop breaks only when alpha exceeds beta
ab_cutoff_strict(alpha, beta) == alpha > beta

ab_cutoff(alpha, beta) == alpha >= beta

\* alpha-beta: the statements after undo_disc in the loop of frame f, up to the break
ab_update(f, val) ==
    LET better == ab_better(f.maximizing, val, f.v)
        v1     == IF better THEN val ELSE f.v
        alpha1 == IF f.maximizing /\ v1 > f.alpha THEN v1 ELSE f.alpha
        beta1  == IF ~f.maximizing /\ v1 < f.beta THEN v1 ELSE f.beta
        cut    == ab_cutoff(alpha1, beta1)
    IN  [f EXCEPT !.v = v1,
                  !.best_move = IF f.fn = "root" /\ better THEN Some(f.acts[f.i]) ELSE @,
                  !.alpha = alpha1,
                  !.beta = beta1,
                  !.mv = None,
                  !.cut = cut,
                  !.i = IF cut THEN @ ELSE @ + 1]


\* mutant of pruned_siblings: the slice starts at the move that caused the cutoff
pruned_siblings_from_i(acts, i) == SubSeq(acts, i, Len(acts))

\* acts[i+1:]
pruned_siblings(acts, i) == SubSeq(acts, i + 1, Len(acts))

\* mutant of add_pruned: only the first skipped sibling gets a placeholder
add_pruned_first(t, f, rest, turn_player) ==
    IF rest = <<>> THEN t
    ELSE new_node(t, f.node_id, Some(Head(rest)), f.d + 1, turn_player,
                  "PRUNED", Some(f.alpha), Some(f.beta), TRUE)

\* the loop over the pruned siblings `rest` of frame f, whose alpha and beta are the
\* bounds at the cutoff; turn_player is game.current_player after the undo
RECURSIVE add_pruned(_, _, _, _)
add_pruned(t, f, rest, turn_player) ==
    IF rest = <<>> THEN t
    ELSE add_pruned(new_node(t, f.node_id, Some(Head(rest)), f.d + 1, turn_player,
                             "PRUNED", Some(f.alpha), Some(f.beta), TRUE),
                    f, Tail(rest), turn_player)

\* the alpha / beta argument of new_node and set_value: alpha-beta passes its bound,
\* minimax leaves the parameter at its default None
Bound(algo, x) == IF algo = "alphabeta" THEN Some(x) ELSE None

\* mutant of node_kind: the kind follows the disc colour, player 1 is always "MAX"
node_kind_first_player(turn_player, ai_player) == IF turn_player = 1 THEN "MAX" ELSE "MIN"

\* "MAX" if game.current_player == ai_player else "MIN"
node_kind(turn_player, ai_player) == IF turn_player = ai_player THEN "MAX" ELSE "MIN"

\* the decision function up to its loop: metrics, the tracer's root node, the root frame
begin_search(algo, g, ai_player, topt) ==
    LET root_kind == node_kind(g.current_player, ai_player)
    IN  [metrics |-> SearchMetrics,
         tracer  |-> IF topt = None THEN None
                     ELSE Some(new_node(SearchTracer(topt[1]), None, None, 0,
                                        g.current_player, root_kind,
                                        Bound(algo, -INF), Bound(algo, INF), FALSE)),
         stack   |-> <<LoopFrame("root", g.current_player = ai_player, 0,
                                 IF topt = None THEN None ELSE Some(0), actions(g))>>]

\* one iteration of a loop from the return of drop_disc (res) to the entry of the
\* callee: the child's trace node, then the callee's counting and entry checks
descend(c, res, f, m, tr) ==
    LET a == f.acts[f.i]
    IN  IF res.err # "none"
          THEN [err |-> res.err, game |-> res.game, metrics |-> m, tracer |-> tr,
                parent |-> f, child |-> f]
        ELSE LET g1       == res.game
                 traced   == tr # None /\ traces_children(f, tr[1])
                 kind     == node_kind(g1.current_player, c.ai_player)
                 child_id == IF traced THEN Some(tr[1].next_id) ELSE None
             IN  [err     |-> "none",
                  game    |-> g1,
                  metrics |-> count_node(m, f.d + 1),
                  tracer  |-> IF traced
                                THEN Some(new_node(tr[1], f.node_id, Some(a), f.d + 1,
                                                   g1.current_player, kind,
                                                   Bound(c.algo, f.alpha),
                                                   Bound(c.algo, f.beta), FALSE))
                              ELSE tr,
                  parent  |-> [f EXCEPT !.mv = res.mv],
                  child   |-> enter_value(~f.maximizing, g1, c, f.d + 1,
                                          f.alpha, f.beta, child_id)]

\* the end of max_value / min_value after its loop: set_value on its own trace node
value_set(c, f, tr) ==
    IF f.exit = "loop" /\ tr # None /\ f.node_id # None /\ f.d <= tr[1].trace_depth
      THEN Some(set_value(tr[1], f.node_id[1], f.v,
                          Bound(c.algo, f.alpha), Bound(c.algo, f.beta)))
    ELSE tr

\* the statements of caller p's loop after undo_disc, val the callee's value
update(c, p, val) == IF c.algo = "alphabeta" THEN ab_update(p, val) ELSE mm_update(p, val)

\* the return into caller p, from the return of undo_disc (res): t0 is the tracer after
\* the callee's set_value, p1 the caller after update; a cutoff adds its placeholders
ascend(res, p, p1, t0) ==
    IF res.err # "none"
      THEN [err |-> res.err, game |-> res.game, tracer |-> t0, parent |-> p]
    ELSE [err    |-> "none",
          game   |-> res.game,
          tracer |-> IF p1.cut /\ t0 # None /\ traces_children(p, t0[1])
                       THEN Some(add_pruned(t0[1], p1, pruned_siblings(p1.acts, p1.i),
                                            res.game.current_player))
                     ELSE t0,
          parent |-> p1]

\* the end of the decision function: set_value on the root node, int(best_move)
finish(c, g, f, m, tr) ==
    [algo |-> c.algo, ai_player |-> c.ai_player, depth_limit |-> c.depth_limit,
     topt |-> c.topt,
     err |-> IF f.best_move = None
               THEN "TypeError: int() argument must be a string, a bytes-like object or a real number, not 'NoneType'"
             ELSE "none",
     move |-> f.best_move,
     root_value |-> f.v,
     metrics |-> m,
     tracer |-> IF tr # None /\ f.node_id # None
                  THEN Some(set_value(tr[1], f.node_id[1], f.v,
                                      Bound(c.algo, f.alpha), Bound(c.algo, f.beta)))
                ELSE tr,
     pre |-> c.pre[1],
     post |-> g]

\* an exception of drop_disc or undo_disc leaving the decision function
raised(c, g, f, m, tr, e) ==
    [finish(c, g, f, m, tr) EXCEPT !.err = e, !.move = None, !.tracer = tr]

-----------------------------------------------------------------------------
(* Driver of the state-model operations: any column, in or out of range,   *)
(* with the default or an explicit player, and undo of the newest move.    *)

\* (rows, cols, connect) of the boards the state-model driver constructs
GameConfigs == {<<3, 2, 3>>, <<2, 3, 3>>, <<DefaultRows, DefaultCols, DefaultConnect>>}

IsDefaultBoard(g) == g.rows = DefaultRows /\ g.cols = DefaultCols

\* columns the driver drops into: every column of a small board, the centre
\* column of the default board; and the two nearest out-of-range columns
ColInputs(g) ==
    (IF IsDefaultBoard(g) THEN {g.cols \div 2} ELSE 0..(g.cols - 1)) \cup {-1, g.cols}

PlayerInputs == {None, Some(1), Some(-1)}

IdleCall == [algo |-> "none", ai_player |-> 0, depth_limit |-> 0, topt |-> None, pre |-> None]

InitDriver ==
    /\ moves = <<>>
    /\ applied = <<>>
    /\ ret = [op |-> "init", col |-> -1, player |-> None, err |-> "none", mv |-> None,
               pre |-> game, before |-> game, paired |-> FALSE]
    /\ call = IdleCall
    /\ stack = <<>>
    /\ metrics = [nodes_expanded |-> 0, max_depth_reached |-> 0]
    /\ tracer = None
    /\ outs = <<>>
    /\ pc = "play"

InitGame ==
    /\ game \in {ConnectFour(cfg[1], cfg[2], cfg[3]) : cfg \in GameConfigs}
    /\ InitDriver

DropReturned(r) == r.op = "drop" /\ r.err = "none"

DropDisc(col, player) ==
    LET res == drop_disc(game, col, player)
    IN  /\ pc = "play"
        /\ game' = res.game
        /\ applied' = IF res.err = "none"
                        THEN Append(applied, res.mv[1])
                      ELSE applied
        /\ ret' = [op |-> "drop", col |-> col, player |-> player, err |-> res.err,
                   mv |-> res.mv, pre |-> game, before |-> game, paired |-> FALSE]
        /\ UNCHANGED <<moves, call, stack, metrics, tracer, outs, pc>>

UndoDisc ==
    /\ pc = "play"
    /\ applied # <<>>
    /\ LET mv  == applied[Len(applied)]
           res == undo_disc(game, mv)
       IN  /\ game' = res.game
           /\ applied' = SubSeq(applied, 1, Len(applied) - 1)
           /\ ret' = [op |-> "undo", col |-> mv.col, err |-> res.err, mv |-> Some(mv),
                      pre |-> game,
                      \* paired: this undo directly follows the drop it undoes; then
                      \* player is that drop's argument and before the state it was called on
                      paired |-> DropReturned(ret),
                      player |-> IF DropReturned(ret) THEN ret.player ELSE Some(mv.player),
                      before |-> IF DropReturned(ret) THEN ret.pre ELSE game]
    /\ UNCHANGED <<moves, call, stack, metrics, tracer, outs, pc>>

NextGame ==
    \/ \E col \in ColInputs(game), player \in PlayerInputs : DropDisc(col, player)
    \/ UndoDisc

SpecGame == InitGame /\ [][NextGame]_vars

-----------------------------------------------------------------------------
(* Driver of undo_disc outside the search's call discipline: any move       *)
(* record of the board's coordinates may be undone, whether or not its disc *)
(* is on the board.                                                         *)

\* (rows, cols, connect) of the board this driver constructs
UndoConfigs == {<<2, 2, 3>>}

InitUndo ==
    /\ game \in {ConnectFour(cfg[1], cfg[2], cfg[3]) : cfg \in UndoConfigs}
    /\ InitDriver

\* every MoveResult with coordinates on the board
Records(g) ==
    {MoveResult(r, c, p) : r \in 0..(g.rows - 1), c \in 0..(g.cols - 1), p \in {1, -1}}

UndoRecord(mv) ==
    /\ pc = "play"
    /\ LET res == undo_disc(game, mv)
       IN  /\ game' = res.game
           /\ applied' = IF res.err = "none"
                           THEN SelectSeq(applied, LAMBDA x : x # mv)
                         ELSE applied
           /\ ret' = [op |-> "undo", col |-> mv.col, player |-> Some(mv.player),
                      err |-> res.err, mv |-> Some(mv),
                      pre |-> game, before |-> game, paired |-> FALSE]
    /\ UNCHANGED <<moves, call, stack, metrics, tracer, outs, pc>>

NextUndo ==
    \/ \E col \in ColInputs(game), player \in PlayerInputs : DropDisc(col, player)
    \/ \E mv \in Records(game) : UndoRecord(mv)

SpecUndo == InitUndo /\ [][NextUndo]_vars

-----------------------------------------------------------------------------
(* Driver of a whole game (main.py): from the empty board the turn owner     *)
(* drops into a legal column until the state is terminal.                    *)

\* (rows, cols, connect) of the boards whole games are played on
PlayConfigs == {<<3, 3, 3>>, <<3, 4, 3>>}

InitPlay ==
    /\ game \in {ConnectFour(cfg[1], cfg[2], cfg[3]) : cfg \in PlayConfigs}
    /\ InitDriver

PlayTurn(c) ==
    /\ pc = "play"
    /\ ~terminal(game)
    /\ \E k \in 1..Len(actions(game)) : actions(game)[k] = c
    /\ game' = drop_disc(game, c, None).game
    /\ UNCHANGED <<moves, applied, ret, call, stack, metrics, tracer, outs, pc>>

NextPlay == \E c \in 0..(game.cols - 1) : PlayTurn(c)

SpecPlay == InitPlay /\ [][NextPlay]_vars

-----------------------------------------------------------------------------
(* Driver of the searches: legal alternating play up to a position (main.py, *)
(* compare.py setup_midgame), then minimax_decision and alphabeta_decision   *)
(* on that position with the same arguments (compare.py main).               *)

\* (rows, cols, connect) of the boards the search driver constructs
SearchConfigs == {<<2, 3, 3>>, <<DefaultRows, DefaultCols, DefaultConnect>>}

Init ==
    /\ game \in {ConnectFour(cfg[1], cfg[2], cfg[3]) : cfg \in SearchConfigs}
    /\ InitDriver

\* the small boards are played freely, the default board along setup_midgame's columns
Playable(g, ms, c) ==
    IF IsDefaultBoard(g)
      THEN Len(ms) < Len(MidgameSeq) /\ c = MidgameSeq[Len(ms) + 1]
    ELSE Len(ms) < MaxPlies

Play(c) ==
    /\ pc = "play"
    /\ ~terminal(game)
    /\ Playable(game, moves, c)
    /\ \E k \in 1..Len(actions(game)) : actions(game)[k] = c
    /\ game' = drop_disc(game, c, None).game
    /\ moves' = Append(moves, c)
    /\ UNCHANGED <<applied, ret, call, stack, metrics, tracer, outs, pc>>

TraceInputs == {None} \cup {Some(t) : t \in 0..MaxTraceDepth}

\* (ai_player, depth_limit, trace option) tried on a position: every trace option on
\* the small board, no tracer or the deepest trace on the default board; the midgame
\* position of the default board is also searched at the default depth for the player
\* to move
SearchInputs(g, ms) ==
    ({1, -1} \X (0..MaxDepth)
        \X (IF IsDefaultBoard(g) THEN {None, Some(MaxTraceDepth)} ELSE TraceInputs))
    \cup (IF IsDefaultBoard(g) /\ ms = MidgameSeq
            THEN {<<g.current_player, DefaultDepth, None>>}
          ELSE {})

Invoke(algo, ai_player, depth_limit, topt) ==
    \E b \in {begin_search(algo, game, ai_player, topt)} :
        /\ call' = [algo |-> algo, ai_player |-> ai_player, depth_limit |-> depth_limit,
                    topt |-> topt, pre |-> Some(game)]
        /\ stack' = b.stack
        /\ metrics' = b.metrics
        /\ tracer' = b.tracer
        /\ pc' = algo
        /\ UNCHANGED <<game, moves, applied, ret, outs>>

CallMinimax(ai_player, depth_limit, topt) ==
    /\ pc = "play"
    /\ Invoke("minimax", ai_player, depth_limit, topt)

CallAlphaBeta ==
    /\ pc = "between"
    /\ Invoke("alphabeta", call.ai_player, call.depth_limit, call.topt)

Running == pc \in {"minimax", "alphabeta"}

AfterRun == IF call.algo = "minimax" THEN "between" ELSE "done"

Descend ==
    /\ Running
    /\ ~Finished(stack[Len(stack)])
    /\ \E n \in {Len(stack)} :
       \E res \in {drop_disc(game, stack[n].acts[stack[n].i], None)} :
       \E nx \in {descend(call, res, stack[n], metrics, tracer)} :
           /\ game' = nx.game
           /\ metrics' = nx.metrics
           /\ tracer' = nx.tracer
           /\ IF nx.err = "none"
                THEN /\ stack' = Append([stack EXCEPT ![n] = nx.parent], nx.child)
                     /\ UNCHANGED <<outs, pc>>
              ELSE /\ stack' = <<>>
                   /\ outs' = Append(outs, raised(call, nx.game, stack[1], metrics, tracer, nx.err))
                   /\ pc' = AfterRun
    /\ UNCHANGED <<moves, applied, ret, call>>

Return ==
    /\ Running
    /\ Len(stack) >= 2
    /\ Finished(stack[Len(stack)])
    /\ \E n \in {Len(stack)} :
       \E t0 \in {value_set(call, stack[n], tracer)} :
       \E res \in {undo_disc(game, stack[n - 1].mv[1])} :
       \E p1 \in {update(call, stack[n - 1], stack[n].v)} :
       \E nx \in {ascend(res, stack[n - 1], p1, t0)} :
           /\ game' = nx.game
           /\ tracer' = nx.tracer
           /\ IF nx.err = "none"
                THEN /\ stack' = Append(SubSeq(stack, 1, n - 2), nx.parent)
                     /\ UNCHANGED <<outs, pc>>
              ELSE /\ stack' = <<>>
                   /\ outs' = Append(outs, raised(call, nx.game, stack[1], metrics, nx.tracer, nx.err))
                   /\ pc' = AfterRun
    /\ UNCHANGED <<moves, applied, ret, call, metrics>>

Finish ==
    /\ Running
    /\ Len(stack) = 1
    /\ Finished(stack[1])
    /\ outs' = Append(outs, finish(call, game, stack[1], metrics, tracer))
    /\ stack' = <<>>
    /\ pc' = AfterRun
    /\ UNCHANGED <<game, moves, applied, ret, call, metrics, tracer>>

Next ==
    \/ \E c \in 0..(game.cols - 1) : Play(c)
    \/ \E in \in SearchInputs(game, moves) : CallMinimax(in[1], in[2], in[3])
    \/ CallAlphaBeta
    \/ Descend
    \/ Return
    \/ Finish

Spec == Init /\ [][Next]_vars

\* A decision function is sequential code on one thread: once it is called, its next
\* statement is executed.  Which position is played and searched is up to the caller.
\* Termination is checked on the small board, where whole games fit in the bounds.
FairInit ==
    /\ game = ConnectFour(2, 3, 3)
    /\ InitDriver

FairSpec ==
    FairInit /\ [][Next]_vars /\ WF_vars(Descend) /\ WF_vars(Return) /\ WF_vars(Finish)

-----------------------------------------------------------------------------
(* Properties of the state model, checked under SpecGame *)

ColumnCount(g, col) == Cardinality({r \in 0..(g.rows - 1) : g.board[r][col] # 0})

InRange(g, col) == 0 <= col /\ col < g.cols

\* the empty cell of column col with the highest row index
LowestEmpty(g, col) ==
    CHOOSE r \in 0..(g.rows - 1) :
        g.board[r][col] = 0 /\ \A r2 \in (r + 1)..(g.rows - 1) : g.board[r2][col] # 0

Gravity(g) ==
    \A c \in 0..(g.cols - 1) : \A r \in 0..(g.rows - 1) :
        g.board[r][c] # 0 => \A r2 \in (r + 1)..(g.rows - 1) : g.board[r2][c] # 0

\* C2: from a non-terminal state, drop_disc(c) with the default player followed by
\* undo_disc of the returned record succeeds and restores the board contents, the
\* turn owner, winner() and terminal() of the state before the drop.
C2_DropUndoRestores ==
    (ret.op = "undo" /\ ret.paired /\ ret.player = None /\ ~terminal(ret.before))
        => /\ ret.err = "none"
           /\ game.board = ret.before.board
           /\ game.current_player = ret.before.current_player
           /\ winner(game) = winner(ret.before)
           /\ terminal(game) = terminal(ret.before)

\* C2 witness: such a round trip was made on a position that already held two discs
\* and a last move
C2_Witness ==
    /\ ret.op = "undo" /\ ret.paired /\ ret.player = None /\ ret.err = "none"
    /\ ~terminal(ret.before)
    /\ ret.before.last_move # None
    /\ Len(applied) >= 2

\* C8: whatever successful drops (any player argument) and newest-first undos were
\* made, no empty cell lies below an occupied cell of the same column.
C8_ColumnsContiguous == Gravity(game)

\* C8 witness: after an undo, with forced discs on the board, some column still holds
\* two discs and another move stays applied
C8_Witness ==
    /\ ret.op = "undo" /\ ret.err = "none"
    /\ Len(applied) >= 3
    /\ \E c \in 0..(game.cols - 1) : ColumnCount(game, c) >= 2
    /\ \E i \in 1..Len(applied) : \E j \in 1..Len(applied) :
           i # j /\ applied[i].player = applied[j].player /\ j = i + 1

\* C9: drop_disc raises exactly when the column is out of range or already holds
\* `rows` discs, with the matching error, and a call that raises leaves the whole
\* state (board, turn owner, last move) as it was.
C9_DropRejects ==
    ret.op = "drop" =>
        /\ ~InRange(ret.pre, ret.col) => ret.err = "ValueError: Column out of bounds."
        /\ (InRange(ret.pre, ret.col) /\ ColumnCount(ret.pre, ret.col) = ret.pre.rows)
               => ret.err = "ValueError: Column is full."
        /\ (InRange(ret.pre, ret.col) /\ ColumnCount(ret.pre, ret.col) < ret.pre.rows)
               => ret.err = "none"
        /\ ret.err # "none" => (game = ret.pre /\ ret.mv = None)

\* C9 witness: the 7th drop into column 3 of the default 6x7 board was rejected
C9_Witness ==
    /\ IsDefaultBoard(game) /\ game.connect = DefaultConnect
    /\ ret.op = "drop" /\ ret.col = 3
    /\ ColumnCount(ret.pre, 3) = 6
    /\ ret.err = "ValueError: Column is full."

\* C10: a successful drop_disc(col, p) writes p into the lowest empty cell of the
\* column and changes no other cell, returns (row, col, p) and makes it last_move;
\* the k-th disc of a column lands at row rows - k.
C10_DropFrame ==
    DropReturned(ret) =>
        LET pre == ret.pre
            p   == IF ret.player = None THEN pre.current_player ELSE ret.player[1]
            r   == LowestEmpty(pre, ret.col)
        IN  /\ ret.mv = Some(MoveResult(r, ret.col, p))
            /\ game.last_move = ret.mv
            /\ game.board = [pre.board EXCEPT ![r][ret.col] = p]
            /\ r = pre.rows - 1 - ColumnCount(pre, ret.col)
            /\ game.rows = pre.rows /\ game.cols = pre.cols /\ game.connect = pre.connect

\* C10 witness: the sixth consecutive drop into a column of the default board, made
\* with an explicit player, landed at row 0
C10_Witness ==
    /\ DropReturned(ret) /\ IsDefaultBoard(game)
    /\ ret.player # None
    /\ ret.mv[1].row = 0
    /\ ColumnCount(game, ret.col) = 6

\* C11: a successful drop_disc(col, p) negates current_player exactly when p is the
\* turn owner before the call, and leaves it unchanged for a forced move; with the
\* default player argument the turn owner alternates on every successful drop.
C11_TurnAdvance ==
    DropReturned(ret) =>
        LET pre == ret.pre
            p   == IF ret.player = None THEN pre.current_player ELSE ret.player[1]
        IN  /\ (p = pre.current_player) <=> (game.current_player = -pre.current_player)
            /\ (p # pre.current_player) => (game.current_player = pre.current_player)
            /\ (ret.player = None) => (game.current_player = -pre.current_player)
            /\ game.current_player \in {1, -1}

\* C11 witness: a forced move by the player not on turn succeeded and left the turn
\* owner as it was
C11_Witness ==
    /\ DropReturned(ret)
    /\ ret.player # None /\ ret.player # Some(ret.pre.current_player)
    /\ game.current_player = ret.pre.current_player
    /\ Len(applied) >= 2

\* the cells (r + k*dr, c + k*dc), k in -a..b, are all on the board and hold p
RunHolds(g, r, c, p, dr, dc, a, b) ==
    \A k \in (-a)..b :
        /\ 0 <= r + k * dr /\ r + k * dr < g.rows
        /\ 0 <= c + k * dc /\ c + k * dc < g.cols
        /\ g.board[r + k * dr][c + k * dc] = p

\* some contiguous run of p's discs through (r, c), in one of the four line
\* directions, has at least g.connect cells
HasRunThrough(g, r, c, p) ==
    \E dir \in {<<0, 1>>, <<1, 0>>, <<1, 1>>, <<-1, 1>>} :
        \E a \in 0..(g.connect - 1) :
            RunHolds(g, r, c, p, dir[1], dir[2], a, g.connect - 1 - a)

TopRowOccupied(g) == \A c \in 0..(g.cols - 1) : g.board[0][c] # 0

\* C13: winner() is 0 when no move is applied; otherwise it is the player of the last
\* applied (not undone) move exactly when a run of that player's discs through the
\* move's cell has length >= connect, and 0 otherwise.  terminal() is winner() # 0 or
\* a fully occupied top row.
C13_WinnerByLastMove ==
    /\ applied = <<>> => winner(game) = 0
    /\ applied # <<>> =>
           LET m == applied[Len(applied)]
           IN  winner(game) = IF HasRunThrough(game, m.row, m.col, m.player)
                                THEN m.player ELSE 0
    /\ terminal(game) <=> (winner(game) # 0 \/ TopRowOccupied(game))

\* C14: actions() lists exactly the columns whose top cell is empty, each once, in
\* strictly ascending order; on the empty default board it is [0,1,2,3,4,5,6].
C14_ActionsAscending ==
    LET acts == actions(game)
    IN  /\ \A i \in 1..Len(acts) : \A j \in 1..Len(acts) : i < j => acts[i] < acts[j]
        /\ {acts[i] : i \in 1..Len(acts)} = {c \in 0..(game.cols - 1) : game.board[0][c] = 0}
        /\ (IsDefaultBoard(game) /\ \A c \in 0..(game.cols - 1) : ColumnCount(game, c) = 0)
               => acts = <<0, 1, 2, 3, 4, 5, 6>>

\* C14 witness: the centre column of the default board is full and actions() lists
\* the six other columns
C14_Witness ==
    /\ IsDefaultBoard(game)
    /\ ColumnCount(game, 3) = 6
    /\ actions(game) = <<0, 1, 2, 4, 5, 6>>

-----------------------------------------------------------------------------
(* Properties of undo_disc on arbitrary records, checked under SpecUndo *)

\* C12: undo_disc(m) raises and changes nothing when board[m.row][m.col] does not
\* hold m.player; otherwise it empties that cell, changes no other cell and makes
\* m.player the turn owner.
C12_UndoChecked ==
    ret.op = "undo" =>
        LET m   == ret.mv[1]
            pre == ret.pre
        IN  IF pre.board[m.row][m.col] # m.player
              THEN /\ ret.err = "ValueError: Undo mismatch: board cell does not match the move."
                   /\ game = pre
            ELSE /\ ret.err = "none"
                 /\ game.board = [pre.board EXCEPT ![m.row][m.col] = 0]
                 /\ game.current_player = m.player
                 /\ game.rows = pre.rows /\ game.cols = pre.cols
                 /\ game.connect = pre.connect

\* C12 witness: an undo was refused because the cell holds the other player's disc
C12_Witness ==
    /\ ret.op = "undo"
    /\ ret.pre.board[ret.mv[1].row][ret.mv[1].col] = -ret.mv[1].player
    /\ ret.err # "none"
    /\ game = ret.pre

-----------------------------------------------------------------------------
(* Properties of the searches, checked under Spec *)

Done == pc = "done"

\* the top activation, whose position is the current game state
Top == stack[Len(stack)]

HasPruned(tr) == tr # None /\ \E k \in 1..Len(tr[1].nodes) : tr[1].nodes[k].pruned

\* the root value a traced search records is the value of trace node 0
RootRecorded(o) == o.tracer # None => o.tracer[1].nodes[1].value = Some(o.root_value)

\* C1: on a non-terminal position of legal alternating play, for every depth limit and
\* either ai_player, minimax_decision and alphabeta_decision both return, with the same
\* column and the same root value.
C1_SameDecision ==
    (Done /\ ~terminal(outs[1].pre)) =>
        /\ outs[1].algo = "minimax" /\ outs[2].algo = "alphabeta"
        /\ outs[1].err = "none" /\ outs[2].err = "none"
        /\ outs[1].move = outs[2].move
        /\ outs[1].root_value = outs[2].root_value
        /\ RootRecorded(outs[1]) /\ RootRecorded(outs[2])

\* C1 witness: both searches ran at depth 5 for the player to move on the default
\* board after columns 3,3,2,4,2,4,1,5 and chose column 0; alpha-beta pruned
C1_Witness ==
    /\ Done /\ IsDefaultBoard(game) /\ moves = MidgameSeq
    /\ call.depth_limit = DefaultDepth /\ call.ai_player = game.current_player
    /\ outs[1].move = Some(0) /\ outs[2].move = Some(0)
    /\ outs[1].root_value = outs[2].root_value
    /\ outs[1].metrics.nodes_expanded = 14025
    /\ outs[2].metrics.nodes_expanded = 383

\* C3: when a search returns, the game state is the state it was called on: board,
\* turn owner and last move.
C3_StateRestored ==
    \A k \in 1..Len(outs) : outs[k].err = "none" => outs[k].post = outs[k].pre

\* C4: alpha-beta expands at most as many nodes as minimax on the same position with
\* the same arguments, and strictly fewer when its trace holds a pruned placeholder.
C4_NodesAtMostMinimax ==
    Done =>
        /\ outs[2].metrics.nodes_expanded <= outs[1].metrics.nodes_expanded
        /\ HasPruned(outs[2].tracer)
               => outs[2].metrics.nodes_expanded < outs[1].metrics.nodes_expanded

\* C4 witness: a traced alpha-beta run on the default board recorded a placeholder and
\* expanded fewer nodes than minimax
C4_Witness ==
    /\ Done /\ IsDefaultBoard(game)
    /\ HasPruned(outs[2].tracer)
    /\ outs[2].metrics.nodes_expanded < outs[1].metrics.nodes_expanded
    /\ outs[1].err = "none" /\ outs[2].err = "none"

\* C5: a search called on a state whose last move completed a run for ai_player
\* records +WIN_SCORE as the root value, for every depth limit.
C5_WonRootValue ==
    \A k \in 1..Len(outs) :
        (winner(outs[k].pre) # 0 /\ winner(outs[k].pre) = outs[k].ai_player)
            => outs[k].root_value = WIN_SCORE

\* C6: a full board without a winner is valued 0, as a node inside a search and as
\* the position a search is called on (the search returns and the root value is 0).
C6_FullBoardIsDraw ==
    /\ (pc \in {"minimax", "alphabeta"} /\ Len(stack) >= 2
            /\ is_full(game) /\ winner(game) = 0)
           => Top.v = 0
    /\ \A k \in 1..Len(outs) :
           (is_full(outs[k].pre) /\ winner(outs[k].pre) = 0)
               => (outs[k].err = "none" /\ outs[k].root_value = 0)

\* C7: below the root, a node whose state is terminal returns +WIN_SCORE, -WIN_SCORE
\* or 0 by its winner, at any depth and without trying a move; evaluate is used only
\* at non-terminal nodes at or past the depth limit; and on every terminal state
\* evaluate agrees with the search's terminal value.
C7_TerminalHandling ==
    /\ (pc \in {"minimax", "alphabeta"} /\ Len(stack) >= 2) =>
           /\ terminal(game) <=> Top.exit = "terminal"
           /\ Top.exit = "terminal" =>
                  /\ Top.acts = <<>> /\ Top.mv = None
                  /\ Top.v = CASE winner(game) = call.ai_player  -> WIN_SCORE
                               [] winner(game) = -call.ai_player -> -WIN_SCORE
                               [] OTHER -> 0
                  /\ winner(game) = 0 => is_full(game)
           /\ Top.exit = "depth" =>
                  /\ Top.d >= call.depth_limit
                  /\ Top.acts = <<>> /\ Top.mv = None
           /\ \A k \in 1..(Len(stack) - 1) : stack[k].exit = "loop" /\ stack[k].mv # None
    /\ terminal(game) =>
           \A p \in {1, -1} :
               evaluate(game, p) = CASE winner(game) = p  -> WIN_SCORE
                                     [] winner(game) = -p -> -WIN_SCORE
                                     [] OTHER -> 0

\* C7 witness: on the default board a node above the depth limit was entered on a
\* position the opponent of ai_player had just won
C7_Witness ==
    /\ pc \in {"minimax", "alphabeta"} /\ Len(stack) >= 2
    /\ IsDefaultBoard(game)
    /\ Top.exit = "terminal"
    /\ Top.d < call.depth_limit
    /\ winner(game) = -call.ai_player
    /\ Top.v = -WIN_SCORE

MaxOf(S) == CHOOSE x \in S : \A y \in S : y <= x
MinOf(S) == CHOOSE x \in S : \A y \in S : x <= y

\* the depth-limited minimax value of state g at depth d: the value max_value (when the
\* player to move is ai_player) or min_value returns on g
RECURSIVE minimax_value(_, _, _, _)
minimax_value(g, ai_player, d, depth_limit) ==
    IF terminal(g) THEN terminal_value(g, ai_player)
    ELSE IF d >= depth_limit THEN evaluate(g, ai_player)
    ELSE LET acts == actions(g)
             vals == {minimax_value(drop_disc(g, acts[k], None).game,
                                    ai_player, d + 1, depth_limit) : k \in 1..Len(acts)}
         IN  IF g.current_player = ai_player THEN MaxOf(vals) ELSE MinOf(vals)

\* (column, minimax value of the position after that column) for the legal columns of
\* the position search output o was called on
ColumnValues(o) ==
    {<<a, minimax_value(drop_disc(o.pre, a, None).game, o.ai_player, 1, o.depth_limit)>> :
        a \in {actions(o.pre)[k] : k \in 1..Len(actions(o.pre))}}

\* the lowest column whose value is the best for the player to move at the root
LowestBest(o, cv) ==
    LET vals == {p[2] : p \in cv}
        best == IF o.pre.current_player = o.ai_player THEN MaxOf(vals) ELSE MinOf(vals)
        cols == {p[1] : p \in {q \in cv : q[2] = best}}
    IN  MinOf(cols)

\* C15: the column either search returns is a legal column of the root state, and it
\* is the lowest legal column whose depth-limited minimax value is the maximum (root
\* maximizing) or the minimum (root minimizing) over the legal columns.
C15_LowestBestColumn ==
    (Done /\ outs[1].err = "none" /\ outs[2].err = "none") =>
        \E cv \in {ColumnValues(outs[1])} :
            \A k \in 1..2 :
                /\ outs[k].move # None
                /\ \E i \in 1..Len(actions(outs[k].pre)) :
                       actions(outs[k].pre)[i] = outs[k].move[1]
                /\ outs[k].move[1] = LowestBest(outs[k], cv)

\* C15 witness: at depth limit 2 or more two columns tie for the best value, other
\* columns are worse, and both searches returned the lower of the tied columns
C15_Witness ==
    /\ Done /\ outs[1].err = "none" /\ outs[2].err = "none"
    /\ outs[1].depth_limit >= 2
    /\ \E cv \in {ColumnValues(outs[1])} :
           /\ \E p \in cv : \E q \in cv :
                  /\ p[1] = outs[1].move[1] /\ q[1] > p[1] /\ q[2] = p[2]
                  /\ \E w \in cv : w[2] # p[2]
           /\ outs[1].move[1] = LowestBest(outs[1], cv)
           /\ outs[2].move = outs[1].move
           /\ outs[1].move[1] > 0

\* C16: with depth_limit = 0 a search applies no move to the state and expands no
\* node (nodes_expanded = 0, max_depth_reached = 0), and its root value is the
\* heuristic score of the root state.
C16_DepthZeroEvaluates ==
    /\ (Running /\ call.depth_limit = 0) => game.board = call.pre[1].board
    /\ \A k \in 1..Len(outs) :
           (outs[k].depth_limit = 0 /\ outs[k].err = "none") =>
               /\ outs[k].metrics.nodes_expanded = 0
               /\ outs[k].metrics.max_depth_reached = 0
               /\ outs[k].root_value = evaluate(outs[k].pre, outs[k].ai_player)

\* C19: when a traced search returns, every trace node that is not a pruned
\* placeholder carries a value: the root, the interior nodes and the leaf nodes.
C19_EveryNodeValued ==
    \A k \in 1..Len(outs) :
        (outs[k].err = "none" /\ outs[k].tracer # None) =>
            \A n \in 1..Len(outs[k].tracer[1].nodes) :
                ~outs[k].tracer[1].nodes[n].pruned
                    => outs[k].tracer[1].nodes[n].value # None

Larger(x, y) == IF x >= y THEN x ELSE y
Smaller(x, y) == IF x <= y THEN x ELSE y

\* the window frame k of the running alpha-beta search was entered with: the root's
\* initial window, or the window its caller held when it made the call
EntryAlpha(k) == IF k = 1 THEN -INF ELSE stack[k - 1].alpha
EntryBeta(k) == IF k = 1 THEN INF ELSE stack[k - 1].beta

\* the window of every activation of the running alpha-beta search
WindowState ==
    pc = "alphabeta" =>
        /\ \A k \in 1..Len(stack) :
               stack[k].exit = "loop" =>
                   /\ stack[k].alpha =
                          IF stack[k].maximizing
                            THEN Larger(EntryAlpha(k), stack[k].v) ELSE EntryAlpha(k)
                   /\ stack[k].beta =
                          IF stack[k].maximizing
                            THEN EntryBeta(k) ELSE Smaller(EntryBeta(k), stack[k].v)
                   /\ stack[k].cut <=> stack[k].alpha >= stack[k].beta
        \* a call in progress was made with alpha < beta
        /\ \A k \in 1..(Len(stack) - 1) : stack[k].alpha < stack[k].beta

\* the return of a child with value val into its caller p, which becomes q
WindowStep ==
    (pc = "alphabeta" /\ pc' = "alphabeta" /\ Len(stack') = Len(stack) - 1) =>
        LET n   == Len(stack)
            p   == stack[n - 1]
            q   == stack'[n - 1]
            val == stack[n].v
        IN  /\ q.v = IF p.maximizing THEN Larger(p.v, val) ELSE Smaller(p.v, val)
            /\ q.alpha = IF p.maximizing THEN Larger(p.alpha, val) ELSE p.alpha
            /\ q.beta = IF p.maximizing THEN p.beta ELSE Smaller(p.beta, val)
            /\ IF q.alpha >= q.beta
                 THEN q.cut /\ q.i = p.i
               ELSE ~q.cut /\ q.i = p.i + 1

\* C17: in alphabeta_decision the window starts at (-INF, +INF) at the root and is
\* carried from sibling to sibling: at a maximizing node alpha is the larger of the
\* alpha at entry and the values returned so far, beta stays as entered (mirrored at
\* a minimizing node); the remaining siblings are skipped exactly when alpha >= beta
\* after an update, so every call is made with alpha < beta.
C17_WindowCarried == []WindowState /\ [][WindowStep]_vars

\* C17 witness: a node below the root has tried a move, holds a window narrowed at
\* both ends and is calling its next child with it
C17_Witness ==
    /\ pc = "alphabeta"
    /\ Len(stack) >= 3
    /\ \E k \in 2..(Len(stack) - 1) :
           /\ stack[k].i >= 2
           /\ stack[k].alpha > -INF /\ stack[k].beta < INF
           /\ stack[k].alpha < stack[k].beta
           /\ stack[k].v # EntryAlpha(k) /\ stack[k].v # EntryBeta(k)

\* the trace nodes whose parent is node id, in creation order
Children(t, id) == SelectSeq(t.nodes, LAMBDA nd : nd.parent = Some(id))

\* the node of trace t with the given id
NodeOf(t, id) == t.nodes[id + 1]

\* a placeholder of a finished alpha-beta trace: flagged and tagged, one level below
\* its parent, without value or children, carrying the bounds its parent ended with
PlaceholdersClosed(t) ==
    \A n \in 1..Len(t.nodes) :
        LET nd == t.nodes[n]
        IN  /\ nd.pruned <=> nd.kind = "PRUNED"
            /\ nd.pruned =>
                   /\ nd.value = None
                   /\ \A j \in 1..Len(t.nodes) : t.nodes[j].parent # Some(nd.id)
                   /\ nd.parent # None
                   /\ nd.depth = NodeOf(t, nd.parent[1]).depth + 1
                   /\ NodeOf(t, nd.parent[1]).depth < t.trace_depth
                   /\ nd.alpha = NodeOf(t, nd.parent[1]).alpha
                   /\ nd.beta = NodeOf(t, nd.parent[1]).beta

\* frame f has left its loop and records its children in trace t: the children carry
\* f's legal moves in order, the explored ones first, then one placeholder for each
\* move skipped by the cutoff, appended last with f's bounds at the cutoff
ChildrenRecorded(f, t) ==
    LET ch       == Children(t, f.node_id[1])
        explored == IF f.cut THEN f.i ELSE Len(f.acts)
    IN  /\ Len(ch) = Len(f.acts)
        /\ \A k \in 1..Len(ch) :
               /\ ch[k].move = Some(f.acts[k])
               /\ ch[k].depth = f.d + 1
               /\ k <= explored => (~ch[k].pruned /\ ch[k].kind \in {"MAX", "MIN"})
               /\ k > explored =>
                      /\ ch[k].pruned /\ ch[k].kind = "PRUNED"
                      /\ ch[k].alpha = Some(f.alpha) /\ ch[k].beta = Some(f.beta)
                      /\ ch[k].value = None
                      /\ ch[k] = t.nodes[Len(t.nodes) - (Len(ch) - k)]
        /\ \A k \in 1..(Len(ch) - 1) : ch[k].move[1] < ch[k + 1].move[1]

\* C18: a cutoff at a traced node of depth d < trace_depth (the root included) appends
\* one placeholder per remaining legal move, in ascending column order, with kind
\* "PRUNED", pruned = true, depth d + 1, that node as parent and the bounds at the
\* cutoff; a placeholder never gets a value or children; so the children of an
\* expanded trace node of depth < trace_depth carry its legal moves, each once, in
\* ascending order.
C18_PlaceholdersRecorded ==
    /\ (pc = "alphabeta" /\ tracer # None /\ Top.exit = "loop" /\ Finished(Top)
            /\ Top.node_id # None /\ Top.d < tracer[1].trace_depth)
           => ChildrenRecorded(Top, tracer[1])
    /\ (Done /\ outs[2].tracer # None /\ outs[2].err = "none")
           => PlaceholdersClosed(outs[2].tracer[1])

\* C18 witness: a traced node below the root was cut off with at least two moves left
C18_Witness ==
    /\ pc = "alphabeta" /\ tracer # None
    /\ Top.exit = "loop" /\ Top.cut
    /\ Top.d >= 1 /\ Top.d < tracer[1].trace_depth
    /\ Len(Top.acts) - Top.i >= 2
    /\ tracer[1].nodes[Len(tracer[1].nodes)].pruned

\* what a trace node is created with; value, alpha and beta are attached later
Created(nd) == [id |-> nd.id, parent |-> nd.parent, move |-> nd.move, depth |-> nd.depth,
                turn_player |-> nd.turn_player, kind |-> nd.kind, pruned |-> nd.pruned]

\* the shape of the trace of the running search
TraceShape ==
    (Running /\ tracer # None) =>
        LET t == tracer[1]
        IN  /\ t.next_id = Len(t.nodes)
            /\ Len(t.nodes) >= 1
            /\ t.nodes[1].parent = None /\ t.nodes[1].depth = 0
            /\ \A n \in 1..Len(t.nodes) :
                   /\ t.nodes[n].id = n - 1
                   /\ t.nodes[n].depth <= t.trace_depth
                   /\ n > 1 =>
                          /\ t.nodes[n].parent # None
                          /\ t.nodes[n].parent[1] < t.nodes[n].id
                          /\ NodeOf(t, t.nodes[n].parent[1]).depth = t.nodes[n].depth - 1
                          /\ NodeOf(t, t.nodes[n].parent[1]).depth < t.trace_depth

\* a step of a search keeps every node already in the trace, in place
TraceStep ==
    (Running /\ tracer # None /\ Len(stack') >= 1) =>
        /\ tracer' # None
        /\ Len(tracer'[1].nodes) >= Len(tracer[1].nodes)
        /\ \A n \in 1..Len(tracer[1].nodes) :
               Created(tracer'[1].nodes[n]) = Created(tracer[1].nodes[n])

\* C20: the trace of a traced search is an append-only log: ids are 0,1,2,... in
\* creation order, node 0 is the root (no parent, depth 0), every other node's parent
\* is an earlier node one level up whose depth is below trace_depth, so no node is
\* deeper than trace_depth; nodes are never removed or reordered.
C20_TraceAppendOnly == []TraceShape /\ [][TraceStep]_vars

\* C20 witness: a search deeper than its trace depth is running below the traced
\* levels, and the trace holds nodes at the trace depth
C20_Witness ==
    /\ Running /\ tracer # None
    /\ tracer[1].trace_depth >= 1
    /\ Top.d > tracer[1].trace_depth
    /\ Top.node_id = None
    /\ \E n \in 1..Len(tracer[1].nodes) : tracer[1].nodes[n].depth = tracer[1].trace_depth

-----------------------------------------------------------------------------
(* The searches run without a tracer, as functions of the position: what   *)
(* max_value / min_value and the root loop compute when tracer is None.    *)
(* A result is [v, alpha, beta, nodes, depth, best]: the value, the window *)
(* after the loop, the number of max_value / min_value entries, the        *)
(* deepest entry, and the root's best_move.                                *)

TheOne(S) == CHOOSE x \in S : TRUE

\* the loop state before the first move of a node at depth d
untraced_start(maximizing, d, alpha, beta, nodes) ==
    [v |-> IF maximizing THEN -INF ELSE INF, alpha |-> alpha, beta |-> beta,
     nodes |-> nodes, depth |-> d, best |-> None]

untraced_leaf(value, d) ==
    [v |-> value, alpha |-> -INF, beta |-> INF, nodes |-> 1, depth |-> d, best |-> None]

\* the loop state st after the child for move a returned result r
untraced_update(algo, maximizing, st, a, r) ==
    LET better == IF maximizing THEN r.v > st.v ELSE r.v < st.v
        v1     == IF better THEN r.v ELSE st.v
        prunes == algo = "alphabeta"
    IN  [v     |-> v1,
         alpha |-> IF prunes /\ maximizing /\ v1 > st.alpha THEN v1 ELSE st.alpha,
         beta  |-> IF prunes /\ ~maximizing /\ v1 < st.beta THEN v1 ELSE st.beta,
         nodes |-> st.nodes + r.nodes,
         depth |-> IF r.depth > st.depth THEN r.depth ELSE st.depth,
         best  |-> IF better THEN Some(a) ELSE st.best]

RECURSIVE untraced_value(_, _, _, _, _, _, _)
RECURSIVE untraced_loop(_, _, _, _, _, _, _, _)

\* max_value / min_value on state g at depth d with window (alpha, beta)
untraced_value(algo, g, ai_player, depth_limit, d, alpha, beta) ==
    IF terminal(g) THEN untraced_leaf(terminal_value(g, ai_player), d)
    ELSE IF d >= depth_limit THEN untraced_leaf(evaluate(g, ai_player), d)
    ELSE untraced_loop(algo, g, ai_player, depth_limit, d, actions(g), 1,
                       untraced_start(g.current_player = ai_player, d, alpha, beta, 1))

\* the loop over acts from index i on, in loop state st
untraced_loop(algo, g, ai_player, depth_limit, d, acts, i, st) ==
    IF i > Len(acts) THEN st
    ELSE TheOne({IF algo = "alphabeta" /\ st1.alpha >= st1.beta
                   THEN st1
                 ELSE untraced_loop(algo, g, ai_player, depth_limit, d, acts, i + 1, st1) :
                 st1 \in {untraced_update(algo, g.current_player = ai_player, st, acts[i], r) :
                          r \in {untraced_value(algo, g1, ai_player, depth_limit, d + 1,
                                                st.alpha, st.beta) :
                                 g1 \in {drop_disc(g, acts[i], None).game}}}})

\* the decision function on state g: its loop over the root's actions
untraced_decision(algo, g, ai_player, depth_limit) ==
    untraced_loop(algo, g, ai_player, depth_limit, 0, actions(g), 1,
                  untraced_start(g.current_player = ai_player, 0, -INF, INF, 0))

\* search output o agrees with the untraced search on the same arguments
SameAsUntraced(o, u) ==
    /\ o.move = u.best
    /\ o.metrics.nodes_expanded = u.nodes
    /\ o.metrics.max_depth_reached = u.depth

\* C21: for the same state, ai_player and depth limit, minimax_decision returns the
\* same column, nodes_expanded and max_depth_reached with no tracer and with a tracer
\* of any trace_depth, and so does alphabeta_decision: every traced search returns
\* what the search without tracer returns.
C21_TracingIsSilent ==
    (Done /\ outs[1].err = "none" /\ outs[2].err = "none" /\ outs[1].topt # None) =>
        \A k \in 1..2 :
            \E u \in {untraced_decision(outs[k].algo, outs[k].pre, outs[k].ai_player,
                                        outs[k].depth_limit)} :
                SameAsUntraced(outs[k], u)

\* C21 witness: a traced pair of searches ran deeper than its trace depth, alpha-beta
\* pruned below the traced levels too, and both returned what the untraced searches
\* return
C21_Witness ==
    /\ Done /\ outs[1].err = "none" /\ outs[2].err = "none"
    /\ outs[1].topt # None /\ outs[1].topt[1] < outs[1].depth_limit
    /\ outs[1].metrics.max_depth_reached > outs[1].topt[1]
    /\ outs[2].metrics.nodes_expanded < outs[1].metrics.nodes_expanded
    /\ HasPruned(outs[2].tracer)

-----------------------------------------------------------------------------
(* Node kinds and node values                                               *)

\* the player to move at the position of activation k of the running search: the
\* current player for the top activation, the mover of the pending move below it
TurnPlayerAt(k) == IF k = Len(stack) THEN game.current_player ELSE stack[k].mv[1].player

\* node nd, when it is not a placeholder, is tagged by who moves there
KindByTurn(nd, ai_player) ==
    ~nd.pruned =>
        /\ nd.kind \in {"MAX", "MIN"}
        /\ nd.kind = "MAX" <=> nd.turn_player = ai_player

\* every node of trace t that is not a placeholder is tagged by who moves there
KindsByTurn(t, ai_player) ==
    \A n \in 1..Len(t.nodes) : KindByTurn(t.nodes[n], ai_player)

\* the values recorded in trace t: a "MAX" node is no smaller and a "MIN" node no
\* larger than any valued child, and a node whose explored children are all valued
\* carries the value of one of them
ValuesByKind(t) ==
    \A n \in 1..Len(t.nodes) :
        LET nd == t.nodes[n]
            ch == SelectSeq(Children(t, nd.id), LAMBDA c : ~c.pruned)
        IN  (nd.value # None /\ ch # <<>>) =>
                /\ \A j \in 1..Len(ch) :
                       ch[j].value # None =>
                           IF nd.kind = "MAX" THEN ch[j].value[1] <= nd.value[1]
                           ELSE ch[j].value[1] >= nd.value[1]
                /\ (\A j \in 1..Len(ch) : ch[j].value # None)
                       => \E j \in 1..Len(ch) : ch[j].value = nd.value

\* kinds in the running search (every activation, and the node recorded last) and in
\* the trace of a search that has just returned
KindState ==
    /\ Running =>
           /\ \A k \in 1..Len(stack) :
                  /\ stack[k].maximizing <=> TurnPlayerAt(k) = call.ai_player
                  /\ (tracer # None /\ stack[k].node_id # None) =>
                         /\ NodeOf(tracer[1], stack[k].node_id[1]).turn_player = TurnPlayerAt(k)
                         /\ NodeOf(tracer[1], stack[k].node_id[1]).kind = "MAX"
                                <=> stack[k].maximizing
           /\ (tracer # None /\ tracer[1].nodes # <<>>) =>
                  KindByTurn(tracer[1].nodes[Len(tracer[1].nodes)], call.ai_player)
    /\ (pc \in {"between", "done"} /\ outs # <<>>) =>
           \A k \in {Len(outs)} :
               (outs[k].err = "none" /\ outs[k].tracer # None) =>
                   /\ KindsByTurn(outs[k].tracer[1], outs[k].ai_player)
                   /\ ValuesByKind(outs[k].tracer[1])

\* values along the steps of a search: an activation that loops starts from the
\* identity of its kind's operation, every value a child returns is folded in with
\* maximum at a "MAX" node and minimum at a "MIN" node, and the value an activation
\* ends with is the one recorded on its trace node
ValueStep ==
    /\ (Len(stack') = Len(stack) + 1 /\ stack'[Len(stack')].exit = "loop") =>
           stack'[Len(stack')].v =
               IF game'.current_player = call'.ai_player THEN -INF ELSE INF
    /\ (Running /\ Len(stack') = Len(stack) - 1 /\ Len(stack') >= 1) =>
           /\ stack'[Len(stack')].v =
                  IF game'.current_player = call.ai_player
                    THEN Larger(stack[Len(stack) - 1].v, Top.v)
                  ELSE Smaller(stack[Len(stack) - 1].v, Top.v)
           /\ (Top.exit = "loop" /\ Top.node_id # None) =>
                  NodeOf(tracer'[1], Top.node_id[1]).value = Some(Top.v)
    /\ (Running /\ Len(stack) = 1 /\ Len(stack') = 0 /\ outs'[Len(outs')].err = "none"
            /\ Top.node_id # None) =>
           NodeOf(outs'[Len(outs')].tracer[1], 0).value = Some(Top.v)

\* C22: every trace node that is not a pruned placeholder has kind "MAX" exactly when
\* its turn_player is ai_player and "MIN" otherwise, whoever moves at the root, and
\* the value of an expanded node is the maximum of its children's values when its kind
\* is "MAX" and their minimum when it is "MIN".
C22_KindsAndValues == []KindState /\ [][ValueStep]_vars

\* C22 witness: finished traces of both algorithms for an ai_player who does not move
\* at the root: "MIN" root, "MAX" and "MIN" nodes below it with recorded values
C22_Witness ==
    /\ Done /\ outs[1].err = "none" /\ outs[2].err = "none" /\ outs[1].tracer # None
    /\ outs[1].pre.current_player # outs[1].ai_player
    /\ \A k \in 1..2 :
           /\ outs[k].tracer[1].nodes[1].kind = "MIN"
           /\ \E n \in 2..Len(outs[k].tracer[1].nodes) :
                  /\ outs[k].tracer[1].nodes[n].kind = "MAX"
                  /\ outs[k].tracer[1].nodes[n].value # None
                  /\ outs[k].tracer[1].nodes[n].depth = 1
           /\ \E n \in 2..Len(outs[k].tracer[1].nodes) :
                  /\ outs[k].tracer[1].nodes[n].kind = "MIN"
                  /\ outs[k].tracer[1].nodes[n].value # None
                  /\ outs[k].tracer[1].nodes[n].depth = 2

-----------------------------------------------------------------------------
(* Nesting of apply and undo inside a search                                *)

\* the state after the pending moves of activations 1..k are applied, in call order,
\* to the state the search was invoked on
RECURSIVE Pending(_)
Pending(k) ==
    IF k = 0 THEN call.pre[1]
    ELSE drop_disc(Pending(k - 1), stack[k].acts[stack[k].i], None).game

\* move record mv is the newest disc of its column in state g
NewestInColumn(g, mv) ==
    /\ g.board[mv.row][mv.col] = mv.player
    /\ mv.row = 0 \/ g.board[mv.row - 1][mv.col] = 0

\* the moves applied and not yet undone are exactly the pending moves of the
\* activations below the top one, applied in call order; every loop iterates over the
\* legal moves of its own position; a search on a non-terminal state raises nothing
NestingState ==
    /\ Running =>
           /\ Top.mv = None
           /\ \A k \in 1..(Len(stack) - 1) :
                  /\ stack[k].exit = "loop" /\ ~stack[k].cut
                  /\ stack[k].i \in 1..Len(stack[k].acts)
                  /\ stack[k].acts = actions(Pending(k - 1))
                  /\ stack[k].mv = drop_disc(Pending(k - 1), stack[k].acts[stack[k].i], None).mv
                  /\ stack[k].mv # None
           /\ game.board = Pending(Len(stack) - 1).board
           /\ game.current_player = Pending(Len(stack) - 1).current_player
           /\ Top.exit = "loop" => Top.acts = actions(game)
    /\ \A k \in 1..Len(outs) : ~terminal(outs[k].pre) => outs[k].err = "none"

\* a call applies a column of the current legal-move list; a return, after a finished
\* loop or after a cutoff, undoes the newest pending move, which is still the newest
\* disc of its column, and leaves the board as it was before that move
NestingStep ==
    /\ (Running /\ Len(stack') = Len(stack) + 1) =>
           /\ \E k \in 1..Len(actions(game)) : actions(game)[k] = Top.acts[Top.i]
           /\ drop_disc(game, Top.acts[Top.i], None).err = "none"
           /\ game' = drop_disc(game, Top.acts[Top.i], None).game
           /\ stack'[Len(stack)].mv = Some(game'.last_move[1])
    /\ (Running /\ Len(stack) >= 2 /\ Len(stack') # Len(stack) + 1) =>
           /\ Len(stack') = Len(stack) - 1
           /\ NewestInColumn(game, stack[Len(stack) - 1].mv[1])
           /\ game'.board = [game.board EXCEPT ![stack[Len(stack) - 1].mv[1].row]
                                                  [stack[Len(stack) - 1].mv[1].col] = 0]
           /\ game'.board = Pending(Len(stack) - 2).board
    /\ (Running /\ ~Running' /\ ~terminal(call.pre[1])) =>
           /\ Len(stack) = 1
           /\ outs'[Len(outs')].err = "none"

\* C23: inside a minimax_decision or alphabeta_decision call on a non-terminal state,
\* apply and undo are LIFO-nested: every undo_disc targets the most recently applied
\* move that is not yet undone, every drop_disc uses a column of the current actions()
\* list, and neither the invalid-move nor the undo-mismatch error is raised, also when
\* a loop is left by a pruning cutoff.
C23_LifoNesting == []NestingState /\ [][NestingStep]_vars

\* C23 witness: an alpha-beta activation two levels below the root has just been cut
\* off with legal moves left untried, and its pending undo is the next step
C23_Witness ==
    /\ pc = "alphabeta" /\ Len(stack) = 3
    /\ ~terminal(call.pre[1])
    /\ Top.cut /\ Top.i < Len(Top.acts)
    /\ stack[2].i >= 2
    /\ NewestInColumn(game, stack[2].mv[1])

-----------------------------------------------------------------------------
(* The depth-limited game tree                                              *)

\* the number of legal move sequences of length 1..n from state g none of whose
\* proper prefixes reaches a terminal state
RECURSIVE TreeCount(_, _)
TreeCount(g, n) ==
    IF n = 0 \/ terminal(g) THEN 0
    ELSE SumTo([k \in 1..Len(actions(g)) |->
                   1 + TreeCount(drop_disc(g, actions(g)[k], None).game, n - 1)],
               Len(actions(g)))

\* the length of the longest such sequence
RECURSIVE TreeDepth(_, _)
TreeDepth(g, n) ==
    IF n = 0 \/ terminal(g) THEN 0
    ELSE 1 + MaxOf({TreeDepth(drop_disc(g, actions(g)[k], None).game, n - 1) :
                       k \in 1..Len(actions(g))})

\* C24: minimax_decision on a non-terminal state with depth_limit >= 1 returns
\* nodes_expanded equal to the number of non-root nodes of the depth-limited game tree
\* (the legal move sequences of length 1..depth_limit with no terminal proper prefix)
\* and max_depth_reached equal to the length of the longest such sequence, which is at
\* most depth_limit.
C24_MinimaxCountsTree ==
    (pc = "between" /\ outs[1].depth_limit >= 1 /\ ~terminal(outs[1].pre)) =>
        /\ outs[1].algo = "minimax" /\ outs[1].err = "none"
        /\ outs[1].metrics.nodes_expanded = TreeCount(outs[1].pre, outs[1].depth_limit)
        /\ outs[1].metrics.max_depth_reached = TreeDepth(outs[1].pre, outs[1].depth_limit)
        /\ outs[1].metrics.max_depth_reached <= outs[1].depth_limit

\* C24 witness: a minimax search to depth 3 whose tree has a terminal state right
\* below the root and also sequences of full length
C24_Witness ==
    /\ pc = "between" /\ outs[1].algo = "minimax" /\ outs[1].err = "none"
    /\ ~terminal(outs[1].pre) /\ outs[1].depth_limit = 3
    /\ outs[1].metrics.max_depth_reached = 3
    /\ \E k \in 1..Len(actions(outs[1].pre)) :
           terminal(drop_disc(outs[1].pre, actions(outs[1].pre)[k], None).game)
    /\ outs[1].metrics.nodes_expanded = TreeCount(outs[1].pre, 3)

-----------------------------------------------------------------------------
(* The windows the evaluator scores                                         *)

\* the cells of the n-cell line from (r, c) in direction (dr, dc)
Cells(r, c, dr, dc, n) == [i \in 1..n |-> <<r + (i - 1) * dr, c + (i - 1) * dc>>]

\* the windows handed to score_window by the four loops of evaluate
horizontal_windows(g) ==
    {Cells(r, c, 0, 1, WINDOW) : r \in 0..(g.rows - 1), c \in 0..(g.cols - WINDOW)}

vertical_windows(g) ==
    {Cells(r, c, 1, 0, WINDOW) : c \in 0..(g.cols - 1), r \in 0..(g.rows - WINDOW)}

diag_down_windows(g) ==
    {Cells(r, c, 1, 1, WINDOW) : r \in 0..(g.rows - WINDOW), c \in 0..(g.cols - WINDOW)}

diag_up_windows(g) ==
    {Cells(r, c, -1, 1, WINDOW) : r \in (WINDOW - 1)..(g.rows - 1), c \in 0..(g.cols - WINDOW)}

scored_windows(g) ==
    horizontal_windows(g) \cup vertical_windows(g)
        \cup diag_down_windows(g) \cup diag_up_windows(g)

OnBoard(g, cell) == 0 <= cell[1] /\ cell[1] < g.rows /\ 0 <= cell[2] /\ cell[2] < g.cols

\* every line of n cells of the board, in the four directions of a winning run
Lines(g, n) ==
    {w \in {Cells(r, c, directions[k][1], directions[k][2], n) :
                r \in 0..(g.rows - 1), c \in 0..(g.cols - 1), k \in 1..Len(directions)} :
        \A i \in 1..n : OnBoard(g, w[i])}

\* C25: for every configured win length `connect`, the windows the evaluator scores
\* are the lines of `connect` cells of the board in the horizontal, the vertical and
\* both diagonal directions.
C25_WindowsHaveWinLength == scored_windows(game) = Lines(game, game.connect)

-----------------------------------------------------------------------------
(* The heuristic score on the default configuration                         *)

\* the number of cells of window w that hold a disc of player p
DiscsIn(g, w, p) == Cardinality({i \in 1..Len(w) : g.board[w[i][1]][w[i][2]] = p})

\* the 4-cell windows of the default board, in some order
RECURSIVE Enumerate(_)
Enumerate(S) == IF S = {} THEN <<>> ELSE <<TheOne(S)>> \o Enumerate(S \ {TheOne(S)})

DefaultLines == Enumerate(Lines(ConnectFour(DefaultRows, DefaultCols, DefaultConnect), 4))

\* what one window adds to the score of p, by the discs it holds
Weight(own, opp) ==
    IF own > 0 /\ opp > 0 THEN 0
    ELSE IF own = 4 THEN 100000 ELSE IF own = 3 THEN 200 ELSE IF own = 2 THEN 30
    ELSE IF opp = 4 THEN -100000 ELSE IF opp = 3 THEN -220 ELSE IF opp = 2 THEN -35
    ELSE 0

\* the number of discs of p in column cols // 2
CenterDiscs(g, p) == Cardinality({r \in 0..(g.rows - 1) : g.board[r][g.cols \div 2] = p})

\* the number of windows holding exactly n discs of p and no disc of the opponent
WindowsHolding(g, p, n) ==
    Cardinality({k \in 1..Len(DefaultLines) :
                    DiscsIn(g, DefaultLines[k], p) = n /\ DiscsIn(g, DefaultLines[k], -p) = 0})

WeightedSum(g, p) ==
    6 * (CenterDiscs(g, p) - CenterDiscs(g, -p))
    + SumTo([k \in 1..Len(DefaultLines) |->
                Weight(DiscsIn(g, DefaultLines[k], p), DiscsIn(g, DefaultLines[k], -p))],
            Len(DefaultLines))

\* C26: on a non-terminal state of the default configuration evaluate(state, p) is
\* 6 * (p's discs minus the opponent's discs in column cols // 2) plus, over every
\* 4-cell window of the four directions, +100000 / +200 / +30 for 4 / 3 / 2 discs of
\* p and otherwise empty cells, -100000 / -220 / -35 for 4 / 3 / 2 discs of the
\* opponent and otherwise empty cells, and 0 for every other window.
\* (Top.v of an activation that left by the depth test is evaluate(game, ai_player).)
C26_EvaluateFormula ==
    (Running /\ Top.exit = "depth" /\ IsDefaultBoard(game)) =>
        /\ ~terminal(game)
        /\ Top.v = WeightedSum(game, call.ai_player)

\* C26 witness: the evaluator has scored a default-board position with discs of both
\* players in the centre column and open windows of two and of three discs on both
\* sides
C26_Witness ==
    /\ Running /\ Top.exit = "depth" /\ IsDefaultBoard(game)
    /\ CenterDiscs(game, 1) >= 1 /\ CenterDiscs(game, -1) >= 1
    /\ CenterDiscs(game, 1) # CenterDiscs(game, -1)
    /\ \A p \in {1, -1} : WindowsHolding(game, p, 3) >= 1 /\ WindowsHolding(game, p, 2) >= 1
    /\ Top.v = WeightedSum(game, call.ai_player)

-----------------------------------------------------------------------------
(* Termination of a search                                                  *)

\* a search runs on a non-terminal state
Invoked == Running /\ ~terminal(call.pre[1])

\* the last search has returned a move
Returned == ~Running /\ outs # <<>> /\ outs[Len(outs)].err = "none"

\* activation f has tried every legal move of its node
Exhausted(f) == f.exit = "loop" /\ (f.i > Len(f.acts) \/ (f.cut /\ f.i = Len(f.acts)))

\* activation f left its loop by a cutoff, with legal moves untried
CutShort(f) == f.exit = "loop" /\ f.cut /\ f.i < Len(f.acts)

\* the depth of every activation is its distance from the root and at most
\* max(depth_limit, 1)
DepthBounded ==
    Running => \A k \in 1..Len(stack) :
                   stack[k].d = k - 1 /\ stack[k].d <= Larger(call.depth_limit, 1)

\* every activation below the root that has its return value met a terminal position
\* or the depth limit or tried every legal move
EndsByLeafOrExhaustion ==
    Invoked => \A k \in 2..Len(stack) :
                   Finished(stack[k]) =>
                       \/ stack[k].exit = "terminal" /\ terminal(game)
                       \/ stack[k].exit = "depth" /\ stack[k].d >= call.depth_limit
                       \/ Exhausted(stack[k])

\* the same, or the activation was cut off by alpha >= beta in alphabeta_decision
EndsByLeafExhaustionOrCutoff ==
    Invoked => \A k \in 2..Len(stack) :
                   Finished(stack[k]) =>
                       \/ stack[k].exit = "terminal" /\ terminal(game)
                       \/ stack[k].exit = "depth" /\ stack[k].d >= call.depth_limit
                       \/ Exhausted(stack[k])
                       \/ call.algo = "alphabeta" /\ CutShort(stack[k])
                              /\ stack[k].alpha >= stack[k].beta

\* C27 as stated: every minimax_decision or alphabeta_decision call on a non-terminal
\* state with a depth limit >= 0 eventually returns, each recursive call ends by
\* reaching a terminal position, reaching the depth limit or exhausting the legal moves
\* of its node, and the recursion depth never exceeds max(depth_limit, 1).
C27_TerminatesAsStated ==
    (Invoked ~> Returned) /\ []EndsByLeafOrExhaustion /\ []DepthBounded

\* C27 amended: every minimax_decision or alphabeta_decision call on a non-terminal
\* state with a depth limit >= 0 eventually returns, each recursive call ends by
\* reaching a terminal position, reaching the depth limit, exhausting the legal moves
\* of its node or, in alphabeta_decision, by a pruning cutoff that leaves legal moves
\* untried, and the recursion depth never exceeds max(depth_limit, 1).
C27_Terminates ==
    (Invoked ~> Returned) /\ []EndsByLeafExhaustionOrCutoff /\ []DepthBounded

\* C27 witness: an alpha-beta search on a non-terminal state has returned a move after
\* reaching its depth limit of 3 and cutting off at least one loop
C27_Witness ==
    /\ Done /\ Returned /\ ~terminal(outs[2].pre)
    /\ outs[2].depth_limit = 3 /\ outs[2].metrics.max_depth_reached = 3
    /\ outs[2].metrics.nodes_expanded < outs[1].metrics.nodes_expanded

-----------------------------------------------------------------------------
(* Winner detection over whole games                                        *)

\* player p owns every cell of some line of `connect` cells, anywhere on the board
HasRun(g, p) ==
    \E r \in 0..(g.rows - 1), c \in 0..(g.cols - 1) :
        \E d \in {<<0, 1>>, <<1, 0>>, <<1, 1>>, <<1, -1>>} :
            \A i \in 0..(g.connect - 1) :
                /\ OnBoard(g, <<r + i * d[1], c + i * d[2]>>)
                /\ g.board[r + i * d[1]][c + i * d[2]] = p

\* C28: in every state of a game of legal alternating drops that stops at the first
\* terminal state, winner() is non-zero exactly when the board holds, anywhere and in
\* any of the four directions, a run of at least `connect` discs of one player, and
\* winner() is then that player.
C28_WinnerSeesEveryRun ==
    /\ winner(game) # 0 <=> (HasRun(game, 1) \/ HasRun(game, -1))
    /\ \A p \in {1, -1} : HasRun(game, p) <=> winner(game) = p

\* C28 witness: the second player has won with a diagonal run whose middle disc was
\* dropped last
C28_Witness ==
    /\ winner(game) = -1 /\ HasRun(game, -1)
    /\ \E d \in {<<1, 1>>, <<1, -1>>} :
           LET m == game.last_move[1]
           IN  /\ OnBoard(game, <<m.row - d[1], m.col - d[2]>>)
               /\ OnBoard(game, <<m.row + d[1], m.col + d[2]>>)
               /\ game.board[m.row - d[1]][m.col - d[2]] = -1
               /\ game.board[m.row + d[1]][m.col + d[2]] = -1

-----------------------------------------------------------------------------
(* Forced moves and the turn owner                                          *)

\* C29: for every reachable state and legal column, drop_disc(c, player = the opponent
\* of the turn owner) followed by undo_disc of the returned record leaves
\* current_player equal to the turn owner before the drop.
C29_ForcedUndoKeepsTurn ==
    (ret.op = "undo" /\ ret.paired /\ ret.err = "none"
        /\ ret.player = Some(-ret.before.current_player)) =>
        game.current_player = ret.before.current_player

=============================================================================
